---- MODULE Spec2Model ----
(***************************************************************************)
(* The step clock and pattern engine of the music-machine sequencer        *)
(* (class Sequencer) together with the save/load path of MusicMachineApp.  *)
(* Every method of the class is an operator from a state record `t` (the   *)
(* object `this`) to the state record after the call; every action of the  *)
(* state machine is one call of a method, or one firing of a timer         *)
(* callback, run to completion (JavaScript runs each of them atomically).  *)
(*                                                                         *)
(* JavaScript arrays are 0-based and TLA+ sequences 1-based: element i of  *)
(* an array is element i+1 of the sequence that models it.                 *)
(***************************************************************************)
EXTENDS Integers, Sequences, FiniteSets, TLC

\* JavaScript null / undefined in a numeric field (pending, stepInterval, id).
Null == -1

\* JavaScript NaN in a numeric field: a value outside every range of numbers
\* the model computes with.
NaN == 0 - 1000

\* Bounds of the exploration.
MaxSteps == 16
MaxTimers == 2
MaxStored == 1
MaxTimeouts == 3
MaxInFlight == 2

\* Instrument names in insertion order (the key order of sequence.tracks).
DrumNames == <<"kick", "snare", "hihat", "openhat", "crash", "clap">>
SynthNames == <<"bass", "lead", "pad", "arp">>
DrumSet == {DrumNames[i] : i \in 1..Len(DrumNames)}
SynthSet == {SynthNames[i] : i \in 1..Len(SynthNames)}
SlotIds == 1..4

\* Inputs the operations are called with.
BpmInputs == {50}
BarsInputs == {0, 2}
TimeSigInputs == {<<4, 4>>, <<1, 16>>}
PatternInputs == {1, 2}
NameInputs == {"Beat"}
WideBarsInputs == {0, 2, 17}
WideBpmInputs == {0 - 5, 59, 60, 100, 200, 201, 250}
SlotInputs == {0, 2, 5}
SemitoneInputs == {20}
EditSteps == {1}
WideSemitoneInputs == {0 - 30, 20}
VolumeInputs == {30}
ForeignBpmInputs == {30, 300}
\* Contents of the tempo field as digit strings: empty, "100" and "300".
BpmTextInputs == {<<>>, <<1, 0, 0>>, <<3, 0, 0>>}
UnknownNames == {"cowbell"}
AudioOutcomes == {"initialized", "noContext", "noGains"}

VARIABLES
    isPlaying,        \* this.isPlaying
    currentStep,      \* this.currentStep
    bpm,              \* this.bpm
    timeSignature,    \* this.timeSignature: [num, den]
    steps,            \* this.steps
    stepInterval,     \* this.stepInterval: id of the timer the object remembers, or Null
    currentSequenceId,\* this.currentSequenceId: persistence id, or Null
    synthNotes,       \* this.synthNotes: synth name -> array of MIDI numbers
    patterns,         \* this.patterns: [active, pending, store: slot -> pattern]
    sequence,         \* this.sequence: [name, bpm, steps, tracks, removed]
    timers,           \* the host's active interval timers: set of [id, cb, period]
    fired,            \* the voices the audio engine started during the latest call
    storage,          \* the persistence backend: array of stored snapshots (id = index)
    audio,            \* how far AudioEngine.initializeAudio got before it returned
    outcome,          \* how the latest call ended: "ok", "threw" (an exception
                      \* escaped it) or "notice" (it showed a failure notice)
    timeouts,         \* the host's pending one-shot timeouts (clap bursts): their number
    held,             \* a snapshot a caller of getSequenceData() holds, and which of
                      \* its objects are still the live sequence's objects
    inflight          \* the save requests sent and not yet answered, in sending
                      \* order: [method, id, data], each with a saveNewSequence
                      \* call suspended at its await

vars == <<isPlaying, currentStep, bpm, timeSignature, steps, stepInterval,
          currentSequenceId, synthNotes, patterns, sequence, timers, fired,
          storage, audio, outcome, timeouts, held, inflight>>

\* The object `this` (plus the host's timers and the backend) as one record.
This ==
    [isPlaying |-> isPlaying, currentStep |-> currentStep, bpm |-> bpm,
     timeSignature |-> timeSignature, steps |-> steps,
     stepInterval |-> stepInterval, currentSequenceId |-> currentSequenceId,
     synthNotes |-> synthNotes, patterns |-> patterns, sequence |-> sequence,
     timers |-> timers, fired |-> fired, storage |-> storage,
     audio |-> audio, outcome |-> outcome, timeouts |-> timeouts, held |-> held,
     inflight |-> inflight]

\* The held snapshot as it reads now: getSequenceData copies the fields of
\* this.sequence, so the tracks, removed and volume objects of the snapshot are
\* the live ones until the live sequence is given other objects, and every
\* write into them shows in the snapshot.
Sync(t) ==
    IF ~t.held.taken THEN t
    ELSE [t EXCEPT !.held.data.tracks = IF t.held.aliasTracks THEN t.sequence.tracks ELSE @,
                   !.held.data.removed = IF t.held.aliasRemoved THEN t.sequence.removed ELSE @,
                   !.held.data.volume = IF t.held.aliasVolume THEN t.sequence.volume ELSE @]

\* The state after a call that left the object as t; the number of pending
\* timeouts is kept within MaxTimeouts.
Becomes(t) ==
    /\ t.timeouts <= MaxTimeouts
    /\ isPlaying' = t.isPlaying
    /\ currentStep' = t.currentStep
    /\ bpm' = t.bpm
    /\ timeSignature' = t.timeSignature
    /\ steps' = t.steps
    /\ stepInterval' = t.stepInterval
    /\ currentSequenceId' = t.currentSequenceId
    /\ synthNotes' = t.synthNotes
    /\ patterns' = t.patterns
    /\ sequence' = t.sequence
    /\ timers' = t.timers
    /\ fired' = t.fired
    /\ storage' = t.storage
    /\ audio' = t.audio
    /\ outcome' = t.outcome
    /\ timeouts' = t.timeouts
    /\ held' = Sync(t).held
    /\ inflight' = t.inflight

\* The object at the start of a call: no voice started yet, nothing gone wrong.
Begin == [This EXCEPT !.fired = <<>>, !.outcome = "ok"]

\* The call stops here: an exception escapes to the caller of the handler.
Throw(t) == [t EXCEPT !.outcome = "threw"]

----------------------------------------------------------------------------
\* Helpers for JavaScript values.

\* The truthiness of a number-or-null (`if (this.patterns.pending)`,
\* `if (this.stepInterval)`): null and 0 are falsy.
Truthy(x) == x # Null /\ x # 0

Min(a, b) == IF a < b THEN a ELSE b
Max(a, b) == IF a > b THEN a ELSE b

\* new Array(len).fill(v)
Filled(len, v) == [i \in 1..len |-> v]

\* arr[i] read as a condition: an index outside the array reads undefined (falsy).
Flag(arr, i) == i >= 0 /\ i < Len(arr) /\ arr[i + 1]

\* arr[i] = v: writing at or past the end grows the array, the holes read falsy.
ArraySet(arr, i, v) ==
    IF i < Len(arr) THEN [arr EXCEPT ![i + 1] = v]
    ELSE arr \o Filled(i - Len(arr), FALSE) \o <<v>>

\* this.synthNotes[sound]?.[step] ?? 69
NoteAt(t, sound, step) ==
    LET arr == t.synthNotes[sound]
    IN  IF step >= 0 /\ step < Len(arr) THEN arr[step + 1] ELSE 69

\* Math.min / Math.max: NaN if either argument is NaN.
MathMin(a, b) == IF a = NaN \/ b = NaN THEN NaN ELSE Min(a, b)
MathMax(a, b) == IF a = NaN \/ b = NaN THEN NaN ELSE Max(a, b)

\* parseInt of a string of decimal digits: NaN for the empty string.
RECURSIVE Digits(_)
Digits(text) ==
    IF text = <<>> THEN 0 ELSE 10 * Digits(SubSeq(text, 1, Len(text) - 1)) + text[Len(text)]
parseInt(text) == IF text = <<>> THEN NaN ELSE Digits(text)

\* Math.round(a / b) for a >= 0, b > 0: halves round up.
RoundDiv(a, b) == (2 * a + b) \div (2 * b)

----------------------------------------------------------------------------
\* Timers of the host (setInterval / clearInterval).

\* The id setInterval returns: a fresh one (the smallest not in use).
NewTimerId(ts) ==
    CHOOSE i \in 1..(Cardinality(ts) + 1) : \A x \in ts : x.id # i

setInterval(t, cb, period) ==
    [t EXCEPT !.timers = @ \cup {[id |-> NewTimerId(t.timers), cb |-> cb, period |-> period]}]

clearInterval(t, id) ==
    [t EXCEPT !.timers = {x \in @ : x.id # id}]

----------------------------------------------------------------------------
\* AudioEngine. initializeAudio runs in the constructor inside a try block and
\* `audio` records where it stopped: "initialized" (at its end), "noContext"
\* (the AudioContext constructor threw: audioContext is null) or "noGains" (a
\* node construction step threw after the context was made and before the
\* section and instrument gain nodes were).

\* ensureAudioContext: resume() is called on the context when the engine is not
\* initialized; a null context makes that a TypeError.
ensureAudioContext(t) ==
    IF t.audio = "noContext" THEN Throw(t) ELSE t

\* The drum generators: ensureAudioContext, node construction, connection to the
\* instrument gain (or the section gain), start. Without gain nodes connect()
\* throws before anything starts. generateClap builds nothing itself: it
\* registers three timeouts (0, 10 and 20 ms), each of which builds one burst.
playDrumSound(t, soundName) ==
    IF soundName \notin DrumSet THEN t
    ELSE LET t1 == ensureAudioContext(t)
         IN  IF t1.outcome = "threw" THEN t1
             ELSE IF soundName = "clap" THEN [t1 EXCEPT !.timeouts = @ + 3]
             ELSE IF t1.audio = "noGains" THEN Throw(t1)
             ELSE [t1 EXCEPT !.fired = Append(@, [section |-> "drums",
                                                  name |-> soundName, midi |-> Null])]

\* One timeout callback of generateClap: it builds, connects and starts one
\* noise burst; without gain nodes connect() throws inside the callback.
clapBurst(t) ==
    LET t1 == [t EXCEPT !.timeouts = @ - 1]
    IN  IF t1.audio = "noGains" THEN Throw(t1)
        ELSE [t1 EXCEPT !.fired = Append(@, [section |-> "drums",
                                             name |-> "clap", midi |-> Null])]

\* The envelope times (ms) playSynthSound passes to generateSynth.
synthRecipe ==
    [bass |-> [duration |-> 500, attack |-> 10, decay |-> 300, release |-> 400],
     lead |-> [duration |-> 300, attack |-> 20, decay |-> 150, release |-> 200],
     pad |-> [duration |-> 1200, attack |-> 400, decay |-> 400, release |-> 800],
     arp |-> [duration |-> 180, attack |-> 10, decay |-> 80, release |-> 150]]

\* The times (ms after now) at which generateSynth schedules the four envelope
\* breakpoints: peak, sustain reached, release starts, silence.
generateSynth(duration, attack, decay, release) ==
    [peakAt |-> attack, sustainAt |-> attack + decay,
     releaseAt |-> duration - release, endAt |-> duration]

\* playSynthSound: the generator of the named synth at the pitch `midi` (the
\* caller passes midiToFreq(midi)).
playSynthSound(t, soundName, midi) ==
    IF soundName \notin SynthSet THEN t
    ELSE LET t1 == ensureAudioContext(t)
         IN  IF t1.outcome = "threw" THEN t1
             ELSE IF t1.audio = "noGains" THEN Throw(t1)
             ELSE [t1 EXCEPT !.fired = Append(@, [section |-> "synths",
                                                  name |-> soundName, midi |-> midi])]

\* The envelope playSynthSound asks generateSynth for, per instrument.
synthEnvelope(soundName) ==
    LET r == synthRecipe[soundName]
    IN  generateSynth(r.duration, r.attack, r.decay, r.release)

\* AudioEngine.setInstrumentVolume: sets the gain of the instrument's node if
\* there is one; no engine state is modelled beyond `audio`.
engineSetInstrumentVolume(t, section, name, value) == t

----------------------------------------------------------------------------
\* Sequencer methods.

\* getStepDuration: (60 / bpm / 4) * 1000 ms; the division is exact for the
\* tempos the inputs lead to (60, 100, 120, 200).
getStepDuration(t) == IF t.bpm = NaN THEN NaN ELSE (60 * 1000) \div (t.bpm * 4)

\* stepsPerBar: max(1, round(num * (16 / den)))
stepsPerBar(t) ==
    Max(1, RoundDiv(t.timeSignature.num * 16, t.timeSignature.den))

\* getBars: this.patterns.store[active]?.bars || 1
getBars(t) ==
    IF t.patterns.active \in DOMAIN t.patterns.store
       /\ t.patterns.store[t.patterns.active].bars # 0
    THEN t.patterns.store[t.patterns.active].bars
    ELSE 1

\* The part of renderSynthTracks that changes state: a note array whose length
\* is not this.steps is replaced by an array of 69s.
renderSynthTracks(t) ==
    [t EXCEPT !.synthNotes =
        [n \in SynthSet |->
            IF Len(t.synthNotes[n]) # t.steps THEN Filled(t.steps, 69)
            ELSE t.synthNotes[n]]]

renderTracks(t) == renderSynthTracks(t)

\* The voices playStep asks the audio engine for at t.currentStep: drums, then
\* synths, each in insertion order, removed instruments skipped. A synth voice
\* carries its MIDI number (the engine receives midiToFreq of it).
StepVoicesSynthsFirst(t) ==
    LET step == t.currentStep
        d == SelectSeq(DrumNames, LAMBDA n :
                ~t.sequence.removed.drums[n] /\ Flag(t.sequence.tracks.drums[n], step))
        s == SelectSeq(SynthNames, LAMBDA n :
                ~t.sequence.removed.synths[n] /\ Flag(t.sequence.tracks.synths[n], step))
    IN  [i \in 1..Len(s) |-> [section |-> "synths", name |-> s[i],
                              midi |-> NoteAt(t, s[i], step)]]
        \o [i \in 1..Len(d) |-> [section |-> "drums", name |-> d[i], midi |-> Null]]

StepVoices(t) ==
    LET step == t.currentStep
        d == SelectSeq(DrumNames, LAMBDA n :
                ~t.sequence.removed.drums[n] /\ Flag(t.sequence.tracks.drums[n], step))
        s == SelectSeq(SynthNames, LAMBDA n :
                ~t.sequence.removed.synths[n] /\ Flag(t.sequence.tracks.synths[n], step))
    IN  [i \in 1..Len(d) |-> [section |-> "drums", name |-> d[i], midi |-> Null]]
        \o [i \in 1..Len(s) |-> [section |-> "synths", name |-> s[i],
                                 midi |-> NoteAt(t, s[i], step)]]

\* The calls of playStep to the audio engine, one voice after the other; an
\* exception ends them.
RECURSIVE PlayVoices(_, _)
PlayVoices(t, voices) ==
    IF voices = <<>> \/ t.outcome = "threw" THEN t
    ELSE LET v == Head(voices)
         IN  PlayVoices(IF v.section = "drums" THEN playDrumSound(t, v.name)
                        ELSE playSynthSound(t, v.name, v.midi),
                        Tail(voices))

\* playStep without the test of the removed flags.
playStepIgnoresRemoved(t) ==
    LET step == t.currentStep
        d == SelectSeq(DrumNames, LAMBDA n : Flag(t.sequence.tracks.drums[n], step))
        s == SelectSeq(SynthNames, LAMBDA n : Flag(t.sequence.tracks.synths[n], step))
    IN  PlayVoices(t,
            [i \in 1..Len(d) |-> [section |-> "drums", name |-> d[i], midi |-> Null]]
            \o [i \in 1..Len(s) |-> [section |-> "synths", name |-> s[i],
                                     midi |-> NoteAt(t, s[i], step)]])

playStep(t) == PlayVoices(t, StepVoices(t))

\* resize keeping the tail of a longer array instead of its head.
resizeKeepsTail(arr, len, fillVal) ==
    IF Len(arr) = len THEN arr
    ELSE IF Len(arr) < len THEN arr \o Filled(len - Len(arr), fillVal)
    ELSE SubSeq(arr, Len(arr) - len + 1, Len(arr))

\* The array resize of setBars.
resize(arr, len, fillVal) ==
    IF Len(arr) = len THEN arr
    ELSE IF Len(arr) < len THEN arr \o Filled(len - Len(arr), fillVal)
    ELSE SubSeq(arr, 1, len)

\* The array resize of resizePatternsTo.
resizeStored(arr, L, fillVal) ==
    IF Len(arr) < L THEN arr \o Filled(L - Len(arr), fillVal)
    ELSE SubSeq(arr, 1, L)

resizePatternsTo(t, len) ==
    [t EXCEPT !.patterns.store =
        [i \in DOMAIN @ |->
            [@[i] EXCEPT
                !.tracks.drums = [n \in DrumSet |-> resizeStored(@[n], len, FALSE)],
                !.tracks.synths = [n \in SynthSet |-> resizeStored(@[n], len, FALSE)],
                !.synthNotes = [n \in SynthSet |-> resizeStored(@[n], len, 69)]]]]

createEmptyPattern(t) ==
    [bars |-> 1,
     tracks |-> [drums |-> [n \in DrumSet |-> Filled(t.steps, FALSE)],
                 synths |-> [n \in SynthSet |-> Filled(t.steps, FALSE)]],
     removed |-> [drums |-> [n \in DrumSet |-> FALSE],
                  synths |-> [n \in SynthSet |-> FALSE]],
     synthNotes |-> [n \in SynthSet |-> Filled(t.steps, 69)]]

saveCurrentPattern(t) ==
    [t EXCEPT !.patterns.store[t.patterns.active] =
        [bars |-> getBars(t),
         tracks |-> t.sequence.tracks,
         removed |-> t.sequence.removed,
         synthNotes |-> t.synthNotes]]

\* applyPattern without the recomputation of the step count.
applyPatternKeepsSteps(t, i) ==
    IF i \notin DOMAIN t.patterns.store THEN t
    ELSE
        LET t1 == saveCurrentPattern(t)
            t2 == resizePatternsTo(t1, t1.steps)
            p == t2.patterns.store[i]
        IN  renderTracks(
                [t2 EXCEPT !.sequence.tracks = p.tracks,
                           !.sequence.removed = p.removed,
                           !.synthNotes = p.synthNotes,
                           !.patterns.active = i])

applyPattern(t, i) ==
    IF i \notin DOMAIN t.patterns.store THEN t
    ELSE
        LET t1 == saveCurrentPattern(Sync(t))
            bars == t1.patterns.store[i].bars
            newSteps == (IF bars = 0 THEN 1 ELSE bars) * stepsPerBar(t1)
            t2 == resizePatternsTo(
                      [t1 EXCEPT !.steps = newSteps, !.sequence.steps = newSteps],
                      newSteps)
            p == t2.patterns.store[i]
        IN  renderTracks(
                [t2 EXCEPT !.sequence.tracks = p.tracks,
                           !.sequence.removed = p.removed,
                           !.synthNotes = p.synthNotes,
                           !.patterns.active = i,
                           !.held.aliasTracks = FALSE,
                           !.held.aliasRemoved = FALSE])

\* requestPattern without the early return for the active slot.
requestPatternAlways(t, i) ==
    IF t.isPlaying THEN [t EXCEPT !.patterns.pending = i]
    ELSE applyPattern(t, i)

requestPattern(t, i) ==
    IF i = t.patterns.active THEN t
    ELSE IF t.isPlaying THEN [t EXCEPT !.patterns.pending = i]
    ELSE applyPattern(t, i)

\* playTimerCallback with the pending switch applied before the step is played.
playTimerCallbackSwitchFirst(t) ==
    LET t1 == IF t.currentStep = t.steps - 1 /\ Truthy(t.patterns.pending)
              THEN [applyPattern(t, t.patterns.pending) EXCEPT !.patterns.pending = Null]
              ELSE t
        t2 == playStep(t1)
    IN  IF t2.outcome = "threw" THEN t2
        ELSE [t2 EXCEPT !.currentStep = (t2.currentStep + 1) % t2.steps]

\* The callback play() hands to setInterval. An exception out of playStep ends
\* the callback before the pending switch and the advance of the index.
playTimerCallback(t) ==
    LET t1 == playStep(t)
        t2 == IF t1.currentStep = t1.steps - 1 /\ Truthy(t1.patterns.pending)
              THEN [applyPattern(t1, t1.patterns.pending) EXCEPT !.patterns.pending = Null]
              ELSE t1
    IN  IF t1.outcome = "threw" THEN t1
        ELSE [t2 EXCEPT !.currentStep = (t2.currentStep + 1) % t2.steps]

\* The callback updateStepInterval() hands to setInterval.
updateTimerCallback(t) ==
    LET t1 == playStep(t)
    IN  IF t1.outcome = "threw" THEN t1
        ELSE [t1 EXCEPT !.currentStep = (t1.currentStep + 1) % t1.steps]

\* play: the flag is set, then the audio context is resumed, then the timer is
\* started; an exception out of ensureAudioContext ends the call before that.
play(t) ==
    LET t0 == ensureAudioContext([t EXCEPT !.isPlaying = TRUE])
        t1 == setInterval(t0, "play", getStepDuration(t0))
    IN  IF t0.outcome = "threw" THEN t0
        ELSE [t1 EXCEPT !.stepInterval = NewTimerId(t.timers)]

stop(t) ==
    LET t1 == IF Truthy(t.stepInterval)
              THEN [clearInterval(t, t.stepInterval) EXCEPT !.stepInterval = Null]
              ELSE t
    IN  [t1 EXCEPT !.isPlaying = FALSE, !.currentStep = 0]

\* updateStepInterval without the clearInterval of the remembered timer.
updateStepIntervalKeepsOld(t) ==
    IF Truthy(t.stepInterval) /\ t.isPlaying
    THEN [setInterval(t, "update", getStepDuration(t))
             EXCEPT !.stepInterval = NewTimerId(t.timers)]
    ELSE t

updateStepInterval(t) ==
    IF Truthy(t.stepInterval) /\ t.isPlaying
    THEN LET t1 == clearInterval(t, t.stepInterval)
         IN  [setInterval(t1, "update", getStepDuration(t1))
                 EXCEPT !.stepInterval = NewTimerId(t1.timers)]
    ELSE t

\* setBpm clamping from below only.
setBpmLowerOnly(t, b) ==
    LET v == Max(60, b)
        t1 == [t EXCEPT !.bpm = v, !.sequence.bpm = v]
    IN  IF t1.isPlaying THEN updateStepInterval(t1) ELSE t1

setBpm(t, b) ==
    LET v == MathMax(60, MathMin(200, b))
        t1 == [t EXCEPT !.bpm = v, !.sequence.bpm = v]
    IN  IF t1.isPlaying THEN updateStepInterval(t1) ELSE t1

\* The change handler of the tempo field: setBpm(parseInt(e.target.value)).
onBpmChange(t, text) == setBpm(t, parseInt(text))

\* setBars with the bar count capped at 15.
setBarsUpTo15(t, bars) ==
    LET clamped == Max(1, Min(15, bars))
    IN  IF t.patterns.active \notin DOMAIN t.patterns.store THEN t
        ELSE
            LET t1 == [t EXCEPT !.patterns.store[t.patterns.active].bars = clamped]
                newSteps == clamped * stepsPerBar(t1)
            IN  IF newSteps = t1.steps THEN t1
                ELSE
                    LET t2 == [t1 EXCEPT
                                !.steps = newSteps,
                                !.sequence.steps = newSteps,
                                !.sequence.tracks.drums =
                                    [n \in DrumSet |-> resize(@[n], newSteps, FALSE)],
                                !.sequence.tracks.synths =
                                    [n \in SynthSet |-> resize(@[n], newSteps, FALSE)],
                                !.synthNotes =
                                    [n \in SynthSet |-> resize(@[n], newSteps, 69)]]
                        t3 == renderTracks(t2)
                        t4 == [t3 EXCEPT !.currentStep = @ % t3.steps]
                        t5 == IF t4.isPlaying THEN updateStepInterval(t4) ELSE t4
                    IN  resizePatternsTo(t5, t5.steps)

\* setBars writing the bar count to every slot.
setBarsAllSlots(t, bars) ==
    LET clamped == Max(1, Min(16, bars))
    IN  IF t.patterns.active \notin DOMAIN t.patterns.store THEN t
        ELSE
            LET t1 == [t EXCEPT !.patterns.store =
                          [i \in DOMAIN @ |-> [@[i] EXCEPT !.bars = clamped]]]
                newSteps == clamped * stepsPerBar(t1)
            IN  IF newSteps = t1.steps THEN t1
                ELSE
                    LET t2 == [t1 EXCEPT
                                !.steps = newSteps,
                                !.sequence.steps = newSteps,
                                !.sequence.tracks.drums =
                                    [n \in DrumSet |-> resize(@[n], newSteps, FALSE)],
                                !.sequence.tracks.synths =
                                    [n \in SynthSet |-> resize(@[n], newSteps, FALSE)],
                                !.synthNotes =
                                    [n \in SynthSet |-> resize(@[n], newSteps, 69)]]
                        t3 == renderTracks(t2)
                        t4 == [t3 EXCEPT !.currentStep = @ % t3.steps]
                        t5 == IF t4.isPlaying THEN updateStepInterval(t4) ELSE t4
                    IN  resizePatternsTo(t5, t5.steps)

setBars(t, bars) ==
    LET clamped == Max(1, Min(16, bars))
    IN  IF t.patterns.active \notin DOMAIN t.patterns.store THEN t
        ELSE
            LET t1 == [t EXCEPT !.patterns.store[t.patterns.active].bars = clamped]
                newSteps == clamped * stepsPerBar(t1)
            IN  IF newSteps = t1.steps THEN t1
                ELSE
                    LET t2 == [t1 EXCEPT
                                !.steps = newSteps,
                                !.sequence.steps = newSteps,
                                !.sequence.tracks.drums =
                                    [n \in DrumSet |-> resize(@[n], newSteps, FALSE)],
                                !.sequence.tracks.synths =
                                    [n \in SynthSet |-> resize(@[n], newSteps, FALSE)],
                                !.synthNotes =
                                    [n \in SynthSet |-> resize(@[n], newSteps, 69)]]
                        t3 == renderTracks(t2)
                        t4 == [t3 EXCEPT !.currentStep = @ % t3.steps]
                        t5 == IF t4.isPlaying THEN updateStepInterval(t4) ELSE t4
                    IN  resizePatternsTo(t5, t5.steps)

applyTimeSignature(t) == setBars(t, getBars(t))

\* The change handler of the two time-signature inputs.
onTsChange(t, num, den) ==
    applyTimeSignature([t EXCEPT !.timeSignature = [num |-> num, den |-> den]])

\* setStep on tracks whose arrays are also the arrays of the active stored slot.
setStepWritesSlot(t, instrument, sound, step, value) ==
    [t EXCEPT !.sequence.tracks[instrument][sound] = ArraySet(@, step, value),
              !.patterns.store[t.patterns.active].tracks[instrument][sound] =
                  ArraySet(@, step, value)]

\* setStep: writes the flag, then previews the sound when switching it on. A
\* sound the section has no track for makes the write a TypeError.
setStep(t, instrument, sound, step, value) ==
    IF sound \notin DOMAIN t.sequence.tracks[instrument] THEN Throw(t)
    ELSE
        LET t1 == [t EXCEPT !.sequence.tracks[instrument][sound] = ArraySet(@, step, value)]
        IN  IF ~value THEN t1
            ELSE IF instrument = "drums" THEN playDrumSound(t1, sound)
            ELSE playSynthSound(t1, sound, NoteAt(t1, sound, step))

\* toggleStep: reads the flag, writes its negation, previews when switching on.
toggleStep(t, instrument, sound, step) ==
    IF sound \notin DOMAIN t.sequence.tracks[instrument] THEN Throw(t)
    ELSE setStep(t, instrument, sound, step,
                 ~Flag(t.sequence.tracks[instrument][sound], step))

\* toggleInstrumentRemoved: removed[section][sound] = !removed[section][sound];
\* a missing entry reads undefined and is created as true.
toggleInstrumentRemoved(t, section, sound) ==
    LET old == t.sequence.removed[section]
    IN  [t EXCEPT !.sequence.removed[section] =
            [n \in DOMAIN old \cup {sound} |->
                IF n = sound THEN ~(n \in DOMAIN old /\ old[n]) ELSE old[n]]]

\* setInstrumentVolume: perInstrument[section][sound] = value (the entry is
\* created if missing), then the engine's gain node, if any, is set.
setInstrumentVolume(t, section, sound, value) ==
    LET old == t.sequence.volume.perInstrument[section]
        t1 == [t EXCEPT !.sequence.volume.perInstrument[section] =
                  [n \in DOMAIN old \cup {sound} |->
                      IF n = sound THEN value ELSE old[n]]]
    IN  engineSetInstrumentVolume(t1, section, sound, value)

\* The contextmenu handler of a track label: toggle, then re-render the section.
onLabelContextMenu(t, section, sound) ==
    LET t1 == toggleInstrumentRemoved(t, section, sound)
    IN  IF section = "synths" THEN renderSynthTracks(t1) ELSE t1

\* A pitch drag that stores the dragged pitch as it is.
onNoteDragUnclamped(t, sound, step, semis) ==
    LET midi == NoteAt(t, sound, step) + semis
        t1 == IF ~Flag(t.sequence.tracks.synths[sound], step)
              THEN setStep(t, "synths", sound, step, TRUE)
              ELSE t
    IN  IF midi # t1.synthNotes[sound][step + 1]
        THEN playSynthSound([t1 EXCEPT !.synthNotes[sound][step + 1] = midi], sound, midi)
        ELSE t1

\* One pitch drag on a synth step button (mousedown, one mousemove of `semis`
\* semitones, mouseup): the step is switched on if it was off, and the pitch,
\* clamped to four octaves, is stored and previewed if it changed.
onNoteDrag(t, sound, step, semis) ==
    LET startMidi == NoteAt(t, sound, step)
        midi == Max(48, Min(84, startMidi + semis))
        t1 == IF ~Flag(t.sequence.tracks.synths[sound], step)
              THEN setStep(t, "synths", sound, step, TRUE)
              ELSE t
    IN  IF t1.outcome = "threw" THEN t1
        ELSE IF midi # t1.synthNotes[sound][step + 1]
        THEN playSynthSound([t1 EXCEPT !.synthNotes[sound][step + 1] = midi],
                            sound, midi)
        ELSE t1

clearSequence(t) ==
    [t EXCEPT !.sequence.tracks.drums = [n \in DrumSet |-> Filled(Len(@[n]), FALSE)],
              !.sequence.tracks.synths = [n \in SynthSet |-> Filled(Len(@[n]), FALSE)]]

\* getSequenceData leaving the persistence id out.
getSequenceDataNoId(t) ==
    [name |-> t.sequence.name, bpm |-> t.sequence.bpm, steps |-> t.sequence.steps,
     tracks |-> t.sequence.tracks, volume |-> t.sequence.volume,
     effects |-> t.sequence.effects, removed |-> t.sequence.removed,
     id |-> Null]

\* getSequenceData: { ...this.sequence, id: this.currentSequenceId }
getSequenceData(t) ==
    [name |-> t.sequence.name, bpm |-> t.sequence.bpm, steps |-> t.sequence.steps,
     tracks |-> t.sequence.tracks, volume |-> t.sequence.volume,
     effects |-> t.sequence.effects, removed |-> t.sequence.removed,
     id |-> t.currentSequenceId]

\* loadSequence of a snapshot that carries every field of a sequence: its
\* fields replace those of this.sequence; this.steps, this.synthNotes and the
\* pattern store are not touched. The engine setters it calls do nothing when
\* their gain node is missing.
loadSequence(t, data) ==
    LET t1 == [Sync(t) EXCEPT !.sequence = [name |-> data.name, bpm |-> data.bpm,
                                            steps |-> data.steps, tracks |-> data.tracks,
                                            volume |-> data.volume, effects |-> data.effects,
                                            removed |-> data.removed],
                              !.currentSequenceId = data.id,
                              !.held.aliasTracks = FALSE,
                              !.held.aliasRemoved = FALSE,
                              !.held.aliasVolume = FALSE]
    IN  renderTracks(setBpm(t1, t1.sequence.bpm))

\* A caller takes a snapshot and keeps it.
takeSnapshot(t) ==
    [t EXCEPT !.held = [taken |-> TRUE, data |-> getSequenceData(t),
                        aliasTracks |-> TRUE, aliasRemoved |-> TRUE, aliasVolume |-> TRUE]]

\* loadSequence of the held snapshot: the live sequence gets the snapshot's
\* tracks, removed and volume objects.
loadHeldSnapshot(t) ==
    [loadSequence(t, Sync(t).held.data) EXCEPT !.held.aliasTracks = TRUE,
                                               !.held.aliasRemoved = TRUE,
                                               !.held.aliasVolume = TRUE]

\* The constructor followed by initializeSequencer, with an audio engine whose
\* initializeAudio ran to its end. Volumes and effect levels are in hundredths.
initializeSequencer ==
    LET t0 == [isPlaying |-> FALSE, currentStep |-> 0, bpm |-> 120,
               timeSignature |-> [num |-> 4, den |-> 4], steps |-> 16,
               stepInterval |-> Null, currentSequenceId |-> Null,
               synthNotes |-> [n \in SynthSet |-> Filled(16, 69)],
               patterns |-> [active |-> 1, pending |-> Null, store |-> <<>>],
               sequence |-> [name |-> "Untitled Sequence", bpm |-> 120, steps |-> 16,
                             tracks |-> [drums |-> [n \in DrumSet |-> Filled(16, FALSE)],
                                         synths |-> [n \in SynthSet |-> Filled(16, FALSE)]],
                             volume |-> [master |-> 80, drums |-> 80, synths |-> 80,
                                         perInstrument |->
                                            [drums |-> [kick |-> 80, snare |-> 80,
                                                        hihat |-> 70, openhat |-> 70,
                                                        crash |-> 60, clap |-> 70],
                                             synths |-> [bass |-> 70, lead |-> 60,
                                                         pad |-> 60, arp |-> 50]]],
                             effects |-> [reverb |-> 20, delay |-> 10, filter |-> 0],
                             removed |-> [drums |-> [n \in DrumSet |-> FALSE],
                                          synths |-> [n \in SynthSet |-> FALSE]]],
               timers |-> {}, fired |-> <<>>, storage |-> <<>>,
               audio |-> "initialized", outcome |-> "ok", timeouts |-> 0,
               held |-> [taken |-> FALSE,
                         data |-> [name |-> "", bpm |-> 0, steps |-> 0, tracks |-> <<>>,
                                   volume |-> <<>>, effects |-> <<>>, removed |-> <<>>,
                                   id |-> Null],
                         aliasTracks |-> FALSE, aliasRemoved |-> FALSE,
                         aliasVolume |-> FALSE],
               inflight |-> <<>>]
        t1 == updateStepInterval(renderTracks(t0))
        t2 == [t1 EXCEPT !.patterns.store = [i \in SlotIds |-> createEmptyPattern(t1)]]
    IN  saveCurrentPattern(t2)

----------------------------------------------------------------------------
\* MusicMachineApp: new / save / load, with the persistence backend.

\* The backend's create: stores the snapshot under a fresh id, which it returns.
backendCreate(st, data) == Append(st, [data EXCEPT !.id = Len(st) + 1])

\* The backend's update: replaces the snapshot stored under id.
backendUpdate(st, id, data) == [st EXCEPT ![id] = [data EXCEPT !.id = id]]

newSequence(t) == [clearSequence(t) EXCEPT !.currentSequenceId = Null]

\* saveNewSequence when the backend call succeeds.
saveNewSequence(t, sequenceName) ==
    LET data == [getSequenceData(t) EXCEPT !.name = sequenceName]
        t1 == IF Truthy(t.currentSequenceId)
              THEN [t EXCEPT !.storage = backendUpdate(@, t.currentSequenceId, data)]
              ELSE [t EXCEPT !.storage = backendCreate(@, data),
                             !.currentSequenceId = Len(t.storage) + 1]
    IN  [t1 EXCEPT !.sequence.name = sequenceName]

\* MusicMachineApp.loadSequence when the backend call succeeds.
appLoadSequence(t, id) == loadSequence(t, t.storage[id])

\* A failing save that writes the name to the live sequence before the request.
saveNewSequenceFailedNameFirst(t, sequenceName, stored) ==
    [t EXCEPT !.sequence.name = sequenceName, !.outcome = "notice"]

\* saveNewSequence when the backend call fails: the snapshot is built and sent,
\* the request throws, the catch block shows the notice. `stored` tells whether
\* a create reached the backend before the failure.
saveNewSequenceFailed(t, sequenceName, stored) ==
    LET data == [getSequenceData(t) EXCEPT !.name = sequenceName]
        t1 == IF stored /\ ~Truthy(t.currentSequenceId)
              THEN [t EXCEPT !.storage = backendCreate(@, data)]
              ELSE t
    IN  [t1 EXCEPT !.outcome = "notice"]

\* MusicMachineApp.loadSequence when the backend call fails.
appLoadSequenceFailed(t, id) == [t EXCEPT !.outcome = "notice"]

\* The requests in flight without the k-th.
WithoutRequest(reqs, k) ==
    [i \in 1..(Len(reqs) - 1) |-> IF i < k THEN reqs[i] ELSE reqs[i + 1]]

\* saveNewSequence up to its await: the snapshot is built and named, the id is
\* tested, and the create (POST) or update (PUT) request is sent with the
\* snapshot serialized as its body. The call is suspended until the answer.
saveNewSequenceBegin(t, sequenceName) ==
    LET data == [getSequenceData(t) EXCEPT !.name = sequenceName]
        req == IF Truthy(t.currentSequenceId)
               THEN [method |-> "PUT", id |-> t.currentSequenceId, data |-> data]
               ELSE [method |-> "POST", id |-> Null, data |-> data]
    IN  [t EXCEPT !.inflight = Append(@, req)]

\* The backend answers the k-th request and the suspended call resumes: after
\* a create the id of the answer is stored in currentSequenceId, after either
\* the live sequence takes the name that was sent.
saveNewSequenceResume(t, k) ==
    LET req == t.inflight[k]
        t1 == [t EXCEPT !.inflight = WithoutRequest(@, k)]
        t2 == IF req.method = "PUT"
              THEN [t1 EXCEPT !.storage = backendUpdate(@, req.id, req.data)]
              ELSE [t1 EXCEPT !.storage = backendCreate(@, req.data),
                              !.currentSequenceId = Len(t.storage) + 1]
    IN  [t2 EXCEPT !.sequence.name = req.data.name]

\* The k-th request fails before it reaches the backend: the suspended call
\* resumes in its catch block and shows the notice.
saveNewSequenceReject(t, k) ==
    [t EXCEPT !.inflight = WithoutRequest(@, k), !.outcome = "notice"]

\* A snapshot that did not come from this session: the initial sequence under
\* another name, with the tempo b and no id.
ForeignSnapshot(b) ==
    [getSequenceData(initializeSequencer) EXCEPT !.name = "Imported", !.bpm = b]

\* A snapshot of a sequence that was saved before: it carries an id.
SavedSnapshot == [ForeignSnapshot(120) EXCEPT !.id = 1]

----------------------------------------------------------------------------
\* The state machine.

\* Exploration bound: no slot may ask for more than MaxSteps steps.
StepsBounded(t) ==
    \A i \in DOMAIN t.patterns.store :
        t.patterns.store[i].bars * stepsPerBar(t) <= MaxSteps

Init ==
    /\ isPlaying = initializeSequencer.isPlaying
    /\ currentStep = initializeSequencer.currentStep
    /\ bpm = initializeSequencer.bpm
    /\ timeSignature = initializeSequencer.timeSignature
    /\ steps = initializeSequencer.steps
    /\ stepInterval = initializeSequencer.stepInterval
    /\ currentSequenceId = initializeSequencer.currentSequenceId
    /\ synthNotes = initializeSequencer.synthNotes
    /\ patterns = initializeSequencer.patterns
    /\ sequence = initializeSequencer.sequence
    /\ timers = initializeSequencer.timers
    /\ fired = initializeSequencer.fired
    /\ storage = initializeSequencer.storage
    /\ audio = initializeSequencer.audio
    /\ outcome = initializeSequencer.outcome
    /\ timeouts = initializeSequencer.timeouts
    /\ inflight = initializeSequencer.inflight
    /\ held = initializeSequencer.held

Play ==
    /\ Cardinality(timers) < MaxTimers
    /\ Becomes(play(Begin))

Stop ==
    /\ Becomes(stop(Begin))

SetBpm(b) ==
    /\ Becomes(setBpm(Begin, b))

BpmChange(text) ==
    /\ Becomes(onBpmChange(Begin, text))

SetBars(n) ==
    /\ StepsBounded(setBars(Begin, n))
    /\ Becomes(setBars(Begin, n))

SetTimeSignature(num, den) ==
    /\ StepsBounded(onTsChange(Begin, num, den))
    /\ Becomes(onTsChange(Begin, num, den))

RequestPattern(i) ==
    /\ Becomes(requestPattern(Begin, i))

\* One firing of an active timer.
Tick(x) ==
    /\ x \in timers
    /\ Becomes(IF x.cb = "play" THEN playTimerCallback(Begin)
               ELSE updateTimerCallback(Begin))

SetStep(instrument, sound, step, value) ==
    /\ step < steps
    /\ Becomes(setStep(Begin, instrument, sound, step, value))

ToggleStep(instrument, sound, step) ==
    /\ step < steps
    /\ Becomes(toggleStep(Begin, instrument, sound, step))

ToggleInstrumentRemoved(section, sound) ==
    /\ Becomes(onLabelContextMenu(Begin, section, sound))

TakeSnapshot ==
    /\ Becomes(takeSnapshot(Begin))

LoadHeldSnapshot ==
    /\ held.taken
    /\ Becomes(loadHeldSnapshot(Begin))

ClearSequence ==
    /\ Becomes(clearSequence(Begin))

\* One pending clap timeout fires.
ClapBurst ==
    /\ timeouts > 0
    /\ Becomes(clapBurst(Begin))

\* toggleInstrumentRemoved called directly.
CallToggleInstrumentRemoved(section, sound) ==
    /\ Becomes(toggleInstrumentRemoved(Begin, section, sound))

NoteDrag(sound, step, semis) ==
    /\ step < steps
    /\ step < Len(synthNotes[sound])
    /\ Becomes(onNoteDrag(Begin, sound, step, semis))

SetInstrumentVolume(section, sound, value) ==
    /\ Becomes(setInstrumentVolume(Begin, section, sound, value))

NewSequence ==
    /\ Becomes(newSequence(Begin))

\* loadSequence(getSequenceData()) called on the sequencer.
Reload ==
    /\ Becomes(loadSequence(Begin, getSequenceData(Begin)))

\* loadSequence called with a snapshot from elsewhere.
LoadSnapshot(data) ==
    /\ Becomes(loadSequence(Begin, data))

SaveSequenceFails(sequenceName, stored) ==
    /\ stored => (~Truthy(currentSequenceId) /\ Len(storage) < MaxStored)
    /\ Becomes(saveNewSequenceFailed(Begin, sequenceName, stored))

LoadSequenceFails(id) ==
    /\ Becomes(appLoadSequenceFailed(Begin, id))

SaveSequence(sequenceName) ==
    /\ Truthy(currentSequenceId) \/ Len(storage) < MaxStored
    /\ Becomes(saveNewSequence(Begin, sequenceName))

LoadSequence(id) ==
    /\ id \in DOMAIN storage
    /\ Becomes(appLoadSequence(Begin, id))

\* One firing of any active timer.
TickAny == \E x \in timers : Tick(x)

\* The transport and the pattern store, with edits of the kick's first step.
Next ==
    \/ Play
    \/ Stop
    \/ \E b \in BpmInputs : SetBpm(b)
    \/ \E n \in BarsInputs : SetBars(n)
    \/ \E ts \in TimeSigInputs : SetTimeSignature(ts[1], ts[2])
    \/ \E i \in PatternInputs : RequestPattern(i)
    \/ TickAny
    \/ \E v \in BOOLEAN : SetStep("drums", "kick", 0, v)

Spec == Init /\ [][Next]_vars

\* Persistence and resizing with the transport stopped: edits, bar and
\* time-signature changes, immediate pattern switches, new / save / load.
NextStore ==
    \/ \E n \in BarsInputs : SetBars(n)
    \/ \E ts \in TimeSigInputs : SetTimeSignature(ts[1], ts[2])
    \/ \E i \in PatternInputs : RequestPattern(i)
    \/ \E v \in BOOLEAN : SetStep("drums", "kick", 0, v)
    \/ ToggleStep("synths", "bass", 0)
    \/ NewSequence
    \/ \E nm \in NameInputs : SaveSequence(nm)
    \/ \E id \in 1..MaxStored : LoadSequence(id)

SpecStore == Init /\ [][NextStore]_vars

\* Editing with the transport stopped: bar counts over the whole range, time
\* signatures, immediate pattern switches, step, pitch and removed-flag edits.
NextEdit ==
    \/ \E n \in WideBarsInputs : SetBars(n)
    \/ \E ts \in TimeSigInputs : SetTimeSignature(ts[1], ts[2])
    \/ \E i \in PatternInputs : RequestPattern(i)
    \/ \E s \in EditSteps : \E v \in BOOLEAN : SetStep("drums", "kick", s, v)
    \/ \E s \in EditSteps : \E d \in SemitoneInputs : NoteDrag("bass", s, d)
    \/ ToggleInstrumentRemoved("drums", "kick")

SpecEdit == Init /\ [][NextEdit]_vars

\* loadSequence applied to the sequencer's own snapshot and to snapshots from
\* elsewhere, on a sequence whose steps, pitches, removed flags, volumes and
\* tempo are edited.
NextReload ==
    \/ \E b \in BpmInputs : SetBpm(b)
    \/ \E v \in BOOLEAN : SetStep("drums", "kick", 0, v)
    \/ \E d \in SemitoneInputs : NoteDrag("bass", 0, d)
    \/ ToggleInstrumentRemoved("drums", "kick")
    \/ \E v \in VolumeInputs : SetInstrumentVolume("drums", "kick", v)
    \/ Reload
    \/ \E b \in ForeignBpmInputs : LoadSnapshot(ForeignSnapshot(b))
    \/ LoadSnapshot(SavedSnapshot)

SpecReload == Init /\ [][NextReload]_vars

\* Saving and loading, with calls that succeed and calls that fail.
NextLoad ==
    \/ \E b \in BpmInputs : SetBpm(b)
    \/ ToggleInstrumentRemoved("drums", "kick")
    \/ \E v \in BOOLEAN : SetStep("drums", "kick", 0, v)
    \/ \E v \in VolumeInputs : SetInstrumentVolume("drums", "kick", v)
    \/ \E nm \in NameInputs : SaveSequence(nm)
    \/ \E nm \in NameInputs : \E stored \in BOOLEAN : SaveSequenceFails(nm, stored)
    \/ \E id \in 1..MaxStored : LoadSequence(id)
    \/ \E id \in 1..MaxStored : LoadSequenceFails(id)

SpecLoad == Init /\ [][NextLoad]_vars

\* The sequencer over an audio engine whose initialisation ended in any of its
\* three ways.
InitAudio ==
    \E a \in AudioOutcomes :
        /\ isPlaying = initializeSequencer.isPlaying
        /\ currentStep = initializeSequencer.currentStep
        /\ bpm = initializeSequencer.bpm
        /\ timeSignature = initializeSequencer.timeSignature
        /\ steps = initializeSequencer.steps
        /\ stepInterval = initializeSequencer.stepInterval
        /\ currentSequenceId = initializeSequencer.currentSequenceId
        /\ synthNotes = initializeSequencer.synthNotes
        /\ patterns = initializeSequencer.patterns
        /\ sequence = initializeSequencer.sequence
        /\ timers = initializeSequencer.timers
        /\ fired = initializeSequencer.fired
        /\ storage = initializeSequencer.storage
        /\ audio = a
        /\ outcome = initializeSequencer.outcome
        /\ timeouts = initializeSequencer.timeouts
        /\ inflight = initializeSequencer.inflight
        /\ held = initializeSequencer.held

NextAudio ==
    \/ Play
    \/ Stop
    \/ TickAny
    \/ ClapBurst
    \/ \E v \in BOOLEAN : SetStep("drums", "kick", 1, v)
    \/ \E v \in BOOLEAN : SetStep("drums", "clap", 2, v)
    \/ ToggleStep("synths", "bass", 1)

SpecAudio == InitAudio /\ [][NextAudio]_vars

\* The four per-instrument calls with names the section has and names it does
\* not have, playing and stopped.
NextNames ==
    \/ Play
    \/ Stop
    \/ TickAny
    \/ \E n \in {"kick"} \cup UnknownNames : \E v \in BOOLEAN : SetStep("drums", n, 0, v)
    \/ \E n \in {"bass"} \cup UnknownNames : ToggleStep("synths", n, 0)
    \/ \E n \in {"kick"} \cup UnknownNames : CallToggleInstrumentRemoved("drums", n)
    \/ \E n \in {"kick"} \cup UnknownNames : \E v \in VolumeInputs :
            SetInstrumentVolume("drums", n, v)

SpecNames == Init /\ [][NextNames]_vars

\* Two drums and two synths at the first step, one of them removable, one of
\* them with a dragged pitch.
NextOrder ==
    \/ Play
    \/ Stop
    \/ TickAny
    \/ ToggleStep("drums", "kick", 0)
    \/ ToggleStep("drums", "snare", 0)
    \/ ToggleStep("synths", "bass", 0)
    \/ \E d \in SemitoneInputs : NoteDrag("lead", 0, d)
    \/ ToggleInstrumentRemoved("drums", "snare")

SpecOrder == Init /\ [][NextOrder]_vars

\* The clap at the first step, playing and stopped, with pattern requests.
NextClap ==
    \/ Play
    \/ Stop
    \/ TickAny
    \/ ClapBurst
    \/ \E v \in BOOLEAN : SetStep("drums", "clap", 0, v)
    \/ \E i \in PatternInputs : RequestPattern(i)

SpecClap == Init /\ [][NextClap]_vars

\* Pitch drags up and down past both ends of the range, with resizes and
\* pattern switches.
NextPitch ==
    \/ \E n \in WideBarsInputs : SetBars(n)
    \/ \E ts \in TimeSigInputs : SetTimeSignature(ts[1], ts[2])
    \/ \E i \in PatternInputs : RequestPattern(i)
    \/ \E s \in EditSteps : \E d \in WideSemitoneInputs : NoteDrag("bass", s, d)

SpecPitch == Init /\ [][NextPitch]_vars

\* A caller that takes a snapshot, lets the sequence be edited, and loads the
\* snapshot again.
NextSnapshot ==
    \/ TakeSnapshot
    \/ LoadHeldSnapshot
    \/ \E v \in BOOLEAN : SetStep("drums", "kick", 0, v)
    \/ ToggleInstrumentRemoved("drums", "kick")
    \/ \E v \in VolumeInputs : SetInstrumentVolume("drums", "kick", v)
    \/ ClearSequence
    \/ \E i \in PatternInputs : RequestPattern(i)

SpecSnapshot == Init /\ [][NextSnapshot]_vars

\* The save button pressed; the call runs up to its await.
SaveBegin(sequenceName) ==
    /\ Len(inflight) < MaxInFlight
    /\ Becomes(saveNewSequenceBegin(Begin, sequenceName))

\* The answer to one request in flight arrives.
SaveResume(k) ==
    /\ k \in DOMAIN inflight
    /\ Becomes(saveNewSequenceResume(Begin, k))

\* One request in flight fails.
SaveReject(k) ==
    /\ k \in DOMAIN inflight
    /\ Becomes(saveNewSequenceReject(Begin, k))

\* One sequence, from construction on, saved by presses of the save button
\* that may overlap, and edited in between.
NextSave ==
    \/ \E name \in NameInputs : SaveBegin(name)
    \/ \E k \in 1..MaxInFlight : SaveResume(k)
    \/ \E k \in 1..MaxInFlight : SaveReject(k)
    \/ \E v \in BOOLEAN : SetStep("drums", "kick", 0, v)
    \/ \E b \in BpmInputs : SetBpm(b)

SpecSave == Init /\ [][NextSave]_vars

\* The tempo as the tempo field and loaded snapshots set it, playing and stopped.
NextTempoField ==
    \/ Play
    \/ Stop
    \/ \E text \in BpmTextInputs : BpmChange(text)
    \/ \E b \in ForeignBpmInputs : LoadSnapshot(ForeignSnapshot(b))
    \/ TickAny

SpecTempoField == Init /\ [][NextTempoField]_vars

\* Pattern requests with slot ids inside and outside the store, playing and
\* stopped, with tempo and time-signature changes in between.
NextSlots ==
    \/ Play
    \/ Stop
    \/ \E b \in BpmInputs : SetBpm(b)
    \/ \E ts \in TimeSigInputs : SetTimeSignature(ts[1], ts[2])
    \/ \E i \in SlotInputs : RequestPattern(i)
    \/ TickAny

SpecSlots == Init /\ [][NextSlots]_vars

\* Playback of a kick and a bass step while they are edited and while the two
\* instruments are removed and restored.
NextVoices ==
    \/ Play
    \/ Stop
    \/ TickAny
    \/ \E v \in BOOLEAN : SetStep("drums", "kick", 0, v)
    \/ ToggleStep("synths", "bass", 0)
    \/ \E d \in SemitoneInputs : NoteDrag("bass", 0, d)
    \/ ToggleInstrumentRemoved("drums", "kick")
    \/ ToggleInstrumentRemoved("synths", "bass")

SpecVoices == Init /\ [][NextVoices]_vars

\* The transport under tempo requests below, inside and above the range.
NextTempo ==
    \/ Play
    \/ Stop
    \/ \E b \in WideBpmInputs : SetBpm(b)
    \/ TickAny

SpecTempo == Init /\ [][NextTempo]_vars

\* Playback across pattern switches between slots of different lengths.
NextSwitch ==
    \/ Play
    \/ Stop
    \/ TickAny
    \/ \E n \in BarsInputs : SetBars(n)
    \/ \E ts \in TimeSigInputs : SetTimeSignature(ts[1], ts[2])
    \/ \E i \in PatternInputs : RequestPattern(i)
    \/ \E v \in BOOLEAN : SetStep("drums", "kick", 0, v)

SpecSwitch == Init /\ [][NextSwitch]_vars

----------------------------------------------------------------------------
\* Properties.

\* Every activation array and every pitch array of the live sequence has length n.
LiveShape(n) ==
    /\ \A d \in DrumSet : Len(sequence.tracks.drums[d]) = n
    /\ \A y \in SynthSet : Len(sequence.tracks.synths[y]) = n
    /\ \A y \in SynthSet : Len(synthNotes[y]) = n

\* Every activation array and every pitch array of every stored slot has length n.
StoreShape(n) ==
    \A i \in SlotIds :
        /\ i \in DOMAIN patterns.store
        /\ \A d \in DrumSet : Len(patterns.store[i].tracks.drums[d]) = n
        /\ \A y \in SynthSet : Len(patterns.store[i].tracks.synths[y]) = n
        /\ \A y \in SynthSet : Len(patterns.store[i].synthNotes[y]) = n

\* The array arr brought to length n: the entries below n kept, the tail filled.
Resized(arr, n, fillVal) ==
    [k \in 1..n |-> IF k <= Len(arr) THEN arr[k] ELSE fillVal]

\* C1: while playing with a switch to an existing slot t (other than the active
\* one) pending, a tick at a step other than the last leaves the active id
\* unchanged, and the tick at the last step makes t active and clears pending.
C1_QuantizedSwitch ==
    [][(/\ isPlaying
        /\ patterns.pending \in SlotIds
        /\ patterns.pending # patterns.active
        /\ TickAny)
       => IF currentStep = steps - 1
          THEN patterns'.active = patterns.pending /\ patterns'.pending = Null
          ELSE patterns'.active = patterns.active]_vars

\* C2: while playing, no request stays pending across a loop boundary: the tick
\* at the last step leaves nothing pending, whichever calls (setBpm, setBars,
\* time signature) came between the request and the boundary.
C2_PendingAppliedAtBoundary ==
    [][(/\ isPlaying
        /\ Truthy(patterns.pending)
        /\ currentStep = steps - 1
        /\ TickAny)
       => ~Truthy(patterns'.pending)]_vars

\* C3: after setBars(b) or a time-signature change the step count is
\* clamp(b,1,16) * max(1, round(num*16/den)) (b the active slot's bar count for a
\* time-signature change), and every live and stored array has that length.
C3_ResizeSettles ==
    [][/\ \A n \in BarsInputs :
            SetBars(n) =>
                /\ steps' = Max(1, Min(16, n))
                              * Max(1, RoundDiv(timeSignature.num * 16, timeSignature.den))
                /\ LiveShape(steps)' /\ StoreShape(steps)'
       /\ \A ts \in TimeSigInputs :
            SetTimeSignature(ts[1], ts[2]) =>
                /\ steps' = Max(1, Min(16, getBars(This)))
                              * Max(1, RoundDiv(ts[1] * 16, ts[2]))
                /\ LiveShape(steps)' /\ StoreShape(steps)'
      ]_vars

\* C4: in every reachable state every live activation array and every live
\* pitch array has length exactly the transport's step count.
C4_LiveArraysMatchSteps == LiveShape(steps)

\* C5: in every reachable state 0 <= currentStep < steps.
C5_StepInRange == 0 <= currentStep /\ currentStep < steps

\* C6: play() while playing leaves the transport as it was, with exactly one
\* periodic timer active.
C6_PlayIdempotent ==
    [][(isPlaying /\ Play)
       => /\ UNCHANGED <<isPlaying, currentStep, bpm, steps, patterns, sequence, synthNotes>>
          /\ Cardinality(timers') = 1]_vars

\* C7: whenever the transport is stopped the step index is 0 and no timer is
\* left to run a tick.
C7_StoppedIsQuiet == ~isPlaying => (currentStep = 0 /\ timers = {})

\* C8: setBpm while playing cancels the remembered timer and starts exactly one
\* timer at the new step interval, fires no voice and keeps the step index.
C8_SetBpmRestartsTimer ==
    [][\A b \in BpmInputs :
        (isPlaying /\ SetBpm(b)) =>
            /\ currentStep' = currentStep
            /\ fired' = <<>>
            /\ \E new \in timers' :
                /\ new.id = stepInterval'
                /\ new.period * (Max(60, Min(200, b)) * 4) = 60 * 1000
                /\ timers' \ {new} = {x \in timers : x.id # stepInterval}
            /\ Cardinality(timers') = Cardinality(timers)]_vars

\* A state setBpm(50) has left while playing mid-bar: the remembered timer is
\* one that updateStepInterval created, at the interval of 60 BPM.
C8_Witness ==
    /\ isPlaying /\ bpm = 60 /\ currentStep > 0
    /\ \E x \in timers : x.id = stepInterval /\ x.cb = "update" /\ x.period = 250

\* C9: the voices a tick fires are those of the live tracks, removed flags and
\* pitches before the tick, also when the tick switches the pattern; the index
\* then advances within the step count in force after the switch.
C9_VoicesBeforeSwitch ==
    [][\/ /\ fired' = StepVoices(This)
          /\ (patterns'.active # patterns.active => currentStep' = (currentStep + 1) % steps')
       \/ ~TickAny]_vars

\* A state right after a boundary tick that fired the outgoing pattern's kick and
\* then switched to a pattern with no kick on that step.
C9_Witness ==
    /\ isPlaying /\ patterns.active = 2 /\ patterns.pending = Null
    /\ fired = <<[section |-> "drums", name |-> "kick", midi |-> Null]>>
    /\ ~Flag(sequence.tracks.drums["kick"], 0)
    /\ Flag(patterns.store[1].tracks.drums["kick"], 0)

\* C10: while playing every tick moves the step index to (index + 1) modulo the
\* step count in force after the tick, and it is the tick of the only active
\* timer (one tick per step interval).
C10_OneAdvancePerInterval ==
    [][(isPlaying /\ TickAny)
       => /\ currentStep' = (currentStep + 1) % steps'
          /\ Cardinality(timers) = 1]_vars

\* C11: while playing, each requestPattern for an existing slot other than the
\* active one replaces whatever was pending and applies nothing, and the tick at
\* the last step makes the slot pending at that moment (the target of the latest
\* call) the active one: earlier targets are never applied.
C11_LatestRequestWins ==
    [][/\ \A i \in PatternInputs :
            (isPlaying /\ i # patterns.active /\ RequestPattern(i))
                => patterns'.pending = i /\ patterns'.active = patterns.active
       /\ (isPlaying /\ patterns.pending \in SlotIds /\ currentStep = steps - 1 /\ TickAny)
            => patterns'.active = patterns.pending]_vars

\* C12: requestPattern(i) while stopped, for an existing slot i other than the
\* active one, makes i active at once, with the step count slot i's bar count
\* times the steps per bar of the current time signature, and the live tracks,
\* removed flags and pitches those stored in slot i, brought to that length.
C12_ImmediateSwitch ==
    [][\A i \in PatternInputs :
        (~isPlaying /\ i \in SlotIds /\ i # patterns.active /\ RequestPattern(i)) =>
            LET slot == patterns.store[i]
                n == slot.bars * Max(1, RoundDiv(timeSignature.num * 16, timeSignature.den))
            IN  /\ patterns'.active = i
                /\ steps' = n
                /\ sequence'.tracks.drums =
                        [d \in DrumSet |-> Resized(slot.tracks.drums[d], n, FALSE)]
                /\ sequence'.tracks.synths =
                        [y \in SynthSet |-> Resized(slot.tracks.synths[y], n, FALSE)]
                /\ sequence'.removed = slot.removed
                /\ synthNotes' = [y \in SynthSet |-> Resized(slot.synthNotes[y], n, 69)]]_vars

\* A stopped state right after a switch from a two-bar slot 1 to the one-bar
\* slot 2 under 1/16: the step count is that of the incoming slot.
C12_Witness ==
    /\ ~isPlaying /\ fired = <<>>
    /\ patterns.active = 2 /\ steps = 1
    /\ patterns.store[1].bars = 2 /\ patterns.store[2].bars = 1
    /\ timeSignature = [num |-> 1, den |-> 16]

\* C13: requestPattern(id) with id the active pattern changes nothing, playing
\* or stopped: active and pending id, step count and index, live tracks, pitches
\* and removed flags, every stored slot, the timers.
C13_RequestActiveIsNoOp ==
    [][\A i \in PatternInputs :
        (i = patterns.active /\ RequestPattern(i)) =>
            UNCHANGED <<isPlaying, currentStep, bpm, timeSignature, steps, stepInterval,
                        currentSequenceId, synthNotes, patterns, sequence, timers,
                        storage>>]_vars

\* A playing state in which requestPattern(active) has just returned with
\* another request still pending and the live kick edited since the last save
\* of the active slot.
C13_Witness ==
    /\ isPlaying /\ fired = <<>>
    /\ patterns.active = 1 /\ patterns.pending = 2
    /\ Flag(sequence.tracks.drums["kick"], 0)
    /\ ~Flag(patterns.store[1].tracks.drums["kick"], 0)

\* C14: requestPattern with an id outside the four slots changes neither the
\* active id, the step count, the live tracks, pitches and removed flags nor any
\* stored slot, playing or stopped; and the tick at the next loop boundary
\* changes none of them either and leaves no switch pending.
C14_UnknownSlotIsNoOp ==
    [][/\ \A i \in SlotInputs :
            (i \notin SlotIds /\ RequestPattern(i)) =>
                /\ patterns'.active = patterns.active
                /\ patterns'.store = patterns.store
                /\ UNCHANGED <<steps, sequence, synthNotes>>
       /\ (/\ isPlaying
           /\ Truthy(patterns.pending) /\ patterns.pending \notin SlotIds
           /\ currentStep = steps - 1
           /\ TickAny) =>
                /\ ~Truthy(patterns'.pending)
                /\ patterns'.active = patterns.active
                /\ patterns'.store = patterns.store
                /\ UNCHANGED <<steps, sequence, synthNotes>>]_vars

\* C15: with the transport stopped, switching from the active slot to any other
\* slot and back restores the live tracks, pitches, removed flags and the bar
\* count exactly as they were before the first switch.
C15_SwitchRoundTrip ==
    ~isPlaying =>
        \A b \in SlotIds \ {patterns.active} :
            LET t == requestPattern(requestPattern(This, b), patterns.active)
            IN  /\ t.patterns.active = patterns.active
                /\ t.sequence.tracks = sequence.tracks
                /\ t.sequence.removed = sequence.removed
                /\ t.synthNotes = synthNotes
                /\ getBars(t) = getBars(This)
                /\ t.steps = steps

\* C16: a tick fires no voice for an instrument marked removed, whatever its
\* activation flags; and toggling a removed flag changes no activation flag and
\* no pitch, live or stored.
C16_RemovedIsSilent ==
    [][/\ TickAny =>
            \A k \in 1..Len(fired') :
                ~sequence.removed[fired'[k].section][fired'[k].name]
       /\ (ToggleInstrumentRemoved("drums", "kick")
            \/ ToggleInstrumentRemoved("synths", "bass")) =>
            /\ sequence'.tracks = sequence.tracks
            /\ synthNotes' = synthNotes
            /\ sequence'.removed # sequence.removed
            /\ patterns' = patterns]_vars

\* A playing state right after the tick at step 0 where the removed kick and
\* the bass were both on: only the bass sounded, at its dragged pitch, and the
\* kick's flag is still set.
C16_Witness ==
    /\ isPlaying /\ currentStep = 1
    /\ sequence.removed.drums["kick"] /\ Flag(sequence.tracks.drums["kick"], 0)
    /\ ~sequence.removed.synths["bass"] /\ Flag(sequence.tracks.synths["bass"], 0)
    /\ fired = <<[section |-> "synths", name |-> "bass", midi |-> 84]>>

\* C17: a resize (setBars or a time-signature change that changes the step
\* count) brings every live and every stored array to the new step count, keeping the entries below it,
\* dropping the others and filling an added tail with false (activation) or
\* 69 (pitch); shrinking is a resize like any other.
C17_ResizeKeepsPrefix ==
    [][(((\E n \in WideBarsInputs : SetBars(n))
         \/ (\E ts \in TimeSigInputs : SetTimeSignature(ts[1], ts[2])))
        /\ steps' # steps) =>
            /\ sequence'.tracks.drums =
                    [d \in DrumSet |-> Resized(sequence.tracks.drums[d], steps', FALSE)]
            /\ sequence'.tracks.synths =
                    [y \in SynthSet |-> Resized(sequence.tracks.synths[y], steps', FALSE)]
            /\ synthNotes' = [y \in SynthSet |-> Resized(synthNotes[y], steps', 69)]
            /\ \A i \in SlotIds :
                /\ patterns'.store[i].tracks.drums =
                        [d \in DrumSet |->
                            Resized(patterns.store[i].tracks.drums[d], steps', FALSE)]
                /\ patterns'.store[i].tracks.synths =
                        [y \in SynthSet |->
                            Resized(patterns.store[i].tracks.synths[y], steps', FALSE)]
                /\ patterns'.store[i].synthNotes =
                        [y \in SynthSet |->
                            Resized(patterns.store[i].synthNotes[y], steps', 69)]]_vars

\* A state right after setBars(17) under 1/16 grew a two-step pattern to 16
\* steps: the kick and the pitch of step 1 are kept, the tail is false / 69.
C17_Witness ==
    /\ steps = 16 /\ timeSignature = [num |-> 1, den |-> 16] /\ fired = <<>>
    /\ sequence.tracks.drums["kick"] = Resized(<<FALSE, TRUE>>, 16, FALSE)
    /\ synthNotes["bass"] = Resized(<<69, 84>>, 16, 69)

\* C18: after setBpm(b) the transport tempo and the bpm field of the sequence
\* both equal b clamped to [60, 200], for requests below, inside and above the
\* range, playing or stopped.
C18_SetBpmClamps ==
    [][\A b \in WideBpmInputs :
        SetBpm(b) =>
            LET clamped == IF b < 60 THEN 60 ELSE IF b > 200 THEN 200 ELSE b
            IN  bpm' = clamped /\ sequence'.bpm = clamped]_vars

\* A playing state right after setBpm(250): both tempo fields are 200 and the
\* remembered timer runs at the interval of 200 BPM.
C18_Witness ==
    /\ isPlaying /\ bpm = 200 /\ sequence.bpm = 200 /\ fired = <<>>
    /\ \E x \in timers : x.id = stepInterval /\ x.cb = "update" /\ x.period = 75

\* C19: setBars(n) stores n clamped to [1, 16] as the bar count of the active
\* slot, for requests below, inside and above the range; and the bar count of
\* every slot is within [1, 16] in every state.
C19_SetBarsClamps ==
    [][/\ \A n \in WideBarsInputs :
            SetBars(n) =>
                patterns'.store[patterns.active].bars =
                    (IF n < 1 THEN 1 ELSE IF n > 16 THEN 16 ELSE n)
       /\ \A i \in SlotIds :
            /\ patterns.store[i].bars \in 1..16
            /\ patterns'.store[i].bars \in 1..16]_vars

\* A state right after setBars(17) on slot 2 under 1/16: slot 2 has 16 bars,
\* slot 1 kept its two.
C19_Witness ==
    /\ patterns.active = 2 /\ fired = <<>>
    /\ patterns.store[2].bars = 16 /\ patterns.store[1].bars = 2
    /\ steps = 16

\* C20: whenever the transport is playing, every active timer has the period
\* (60 / bpm / 4) * 1000 ms of the current tempo, whatever the time signature
\* and the bar count.
C20_TimerPeriodFollowsTempo ==
    isPlaying => \A x \in timers : x.period * (bpm * 4) = 60 * 1000

\* C21: loadSequence(getSequenceData()) leaves every activation flag, pitch,
\* volume, effect level and removed flag, the tempo and the persistence id as
\* they were.
C21_ReloadRoundTrip ==
    [][Reload =>
        /\ sequence'.tracks = sequence.tracks
        /\ synthNotes' = synthNotes
        /\ sequence'.volume = sequence.volume
        /\ sequence'.effects = sequence.effects
        /\ sequence'.removed = sequence.removed
        /\ bpm' = bpm /\ sequence'.bpm = sequence.bpm
        /\ currentSequenceId' = currentSequenceId]_vars

\* A saved sequence with an edited kick step, a dragged bass pitch, the kick
\* removed and turned down, and the tempo changed: the state in which the
\* reload has just run.
C21_Witness ==
    /\ fired = <<>> /\ outcome = "ok"
    /\ currentSequenceId = 1 /\ bpm = 60
    /\ Flag(sequence.tracks.drums["kick"], 0)
    /\ synthNotes["bass"][1] = 84
    /\ sequence.removed.drums["kick"]
    /\ sequence.volume.perInstrument.drums["kick"] = 30

\* C22: after loadSequence(S) the live name, tempo (clamped), step count,
\* tracks, volumes, effect levels and removed flags are those of S, and the
\* transport's step count equals S.steps.
C22_LoadReplaces ==
    [][\A id \in 1..MaxStored :
        LoadSequence(id) =>
            LET S == storage[id]
            IN  /\ sequence'.name = S.name
                /\ bpm' = Max(60, Min(200, S.bpm)) /\ sequence'.bpm = bpm'
                /\ sequence'.steps = S.steps
                /\ sequence'.tracks = S.tracks
                /\ sequence'.volume = S.volume
                /\ sequence'.effects = S.effects
                /\ sequence'.removed = S.removed
                /\ steps' = S.steps]_vars

\* C26: a persistence call that fails changes nothing in memory: a failed save
\* leaves the sequence name and the persistence id (and everything else) as
\* they were, a failed load leaves the live sequence, the tempo and the
\* pattern store as they were.
C26_FailedCallChangesNothing ==
    [][((\E nm \in NameInputs : \E stored \in BOOLEAN : SaveSequenceFails(nm, stored))
        \/ (\E id \in 1..MaxStored : LoadSequenceFails(id)))
       => UNCHANGED <<sequence, currentSequenceId, bpm, patterns, synthNotes, steps,
                      timeSignature, currentStep, isPlaying, timers, stepInterval>>]_vars

\* A save of an unsaved sequence has just failed after the backend stored it:
\* the notice is up, the sequence is still unsaved and keeps its name.
C26_Witness ==
    /\ outcome = "notice"
    /\ currentSequenceId = Null /\ Len(storage) = 1
    /\ sequence.name \notin NameInputs
    /\ Flag(sequence.tracks.drums["kick"], 0)

\* C30: in every reachable state the transport tempo equals the live
\* sequence's bpm field and lies within [60, 200], also after loadSequence of a
\* snapshot whose bpm is outside that range.
C30_TempoInRange == bpm = sequence.bpm /\ bpm \in 60..200

\* C23: when the audio engine failed to initialise, play() still starts the
\* transport and every tick advances the step index by one modulo the step
\* count, also at steps where instruments are active; no exception leaves
\* either call and no voice sounds.
C23_SilentTransport ==
    [][(audio # "initialized") =>
        /\ Play => (isPlaying' /\ timers' # {} /\ outcome' = "ok")
        /\ TickAny => /\ currentStep' = (currentStep + 1) % steps
                      /\ outcome' = "ok"
                      /\ fired' = <<>>]_vars

\* C24: playDrumSound and playSynthSound, called with a known instrument,
\* return to their caller without an exception, also when the audio context is
\* missing or the construction of the audio nodes failed.
C24_PlayNeverThrows ==
    /\ \A n \in DrumSet : playDrumSound(Begin, n).outcome # "threw"
    /\ \A n \in SynthSet : playSynthSound(Begin, n, 69).outcome # "threw"

\* C27: for every synth voice playSynthSound starts (bass, lead, pad or arp)
\* the envelope it uses has its breakpoints in order: attack <= attack + decay <= duration - release
\* <= duration.
C27_EnvelopeOrdered ==
    \A k \in 1..Len(fired) :
        fired[k].section = "synths" =>
            LET e == synthEnvelope(fired[k].name)
            IN  /\ e.peakAt <= e.sustainAt
                /\ e.sustainAt <= e.releaseAt
                /\ e.releaseAt <= e.endAt

\* C25: setStep, toggleStep, toggleInstrumentRemoved and setInstrumentVolume
\* called with a name that is no instrument of the section change nothing (no
\* entry is created) and do not throw.
C25_UnknownNameIsNoOp ==
    [][\A n \in UnknownNames :
        ((\E v \in BOOLEAN : SetStep("drums", n, 0, v))
         \/ ToggleStep("synths", n, 0)
         \/ CallToggleInstrumentRemoved("drums", n)
         \/ (\E v \in VolumeInputs : SetInstrumentVolume("drums", n, v)))
        => /\ UNCHANGED <<sequence, synthNotes, patterns, steps, currentStep,
                          isPlaying, timers, bpm>>
           /\ outcome' = "ok"]_vars

\* The position of the instrument of voice v in playing order: drums before
\* synths, each section in the key order of sequence.tracks.
VoiceRank(v) ==
    IF v.section = "drums"
    THEN CHOOSE i \in 1..Len(DrumNames) : DrumNames[i] = v.name
    ELSE Len(DrumNames) + (CHOOSE i \in 1..Len(SynthNames) : SynthNames[i] = v.name)

\* C28: a tick at step s fires exactly one voice for every instrument that is
\* not removed and has its flag at s set, and no other voice; drum voices come
\* before synth voices, each section in insertion order; a synth voice carries
\* the pitch stored at index s, a drum voice none.
C28_TickFiresActiveVoices ==
    [][TickAny =>
        LET s == currentStep
            Sounding(section, n) ==
                ~sequence.removed[section][n] /\ Flag(sequence.tracks[section][n], s)
        IN  /\ \A k \in 1..Len(fired') :
                   /\ fired'[k].section \in {"drums", "synths"}
                   /\ fired'[k].name \in DOMAIN sequence.tracks[fired'[k].section]
                   /\ Sounding(fired'[k].section, fired'[k].name)
                   /\ fired'[k].midi = IF fired'[k].section = "drums" THEN Null
                                       ELSE synthNotes[fired'[k].name][s + 1]
            /\ \A section \in {"drums", "synths"} :
                   \A n \in DOMAIN sequence.tracks[section] :
                       Sounding(section, n) =>
                           Cardinality({k \in 1..Len(fired') :
                               fired'[k].section = section /\ fired'[k].name = n}) = 1
            /\ \A k \in 1..Len(fired') : \A l \in 1..Len(fired') :
                   k < l => VoiceRank(fired'[k]) < VoiceRank(fired'[l])]_vars

\* A tick at step 0 has just fired kick, snare, bass and the lead at its
\* dragged pitch, in this order.
C28_Witness ==
    /\ isPlaying /\ currentStep = 1
    /\ fired = <<[section |-> "drums", name |-> "kick", midi |-> Null],
                 [section |-> "drums", name |-> "snare", midi |-> Null],
                 [section |-> "synths", name |-> "bass", midi |-> 69],
                 [section |-> "synths", name |-> "lead", midi |-> 84]>>

\* C29: in every reachable state the pattern store holds exactly the slots
\* 1..4, the active id is one of them, and pending is none or a slot id in 1..4
\* other than the active one.
C29_StoreAndPendingShape ==
    /\ DOMAIN patterns.store = 1..4
    /\ patterns.active \in 1..4
    /\ \/ patterns.pending = Null
       \/ patterns.pending \in 1..4 /\ patterns.pending # patterns.active

\* C31: a tick that performs the quantized switch at the loop boundary leaves
\* the step index at 0 of the incoming pattern, whatever the step counts of the
\* outgoing and the incoming pattern.
C31_SwitchLandsOnZero ==
    [][(TickAny /\ patterns'.active # patterns.active) => currentStep' = 0]_vars

\* C32: every voice a tick triggers is fully built when the tick returns:
\* a tick leaves no construction to a later timer callback, so no part of a
\* voice is built while the transport is stopped or after a pattern switch.
C32_TickBuildsAllVoices ==
    [][TickAny => timeouts' = timeouts]_vars

\* What a stored slot holds besides its bar count.
SlotContent(p) == <<p.tracks, p.synthNotes, p.removed>>

\* C33: stored slots and the live sequence share no arrays: an edit of a live
\* step, pitch or removed flag changes no stored slot, and the tracks, pitches
\* and removed flags of a slot change only when the slot is saved as the
\* outgoing pattern of a switch or when the step count changes (resize); the
\* removed flags only in the first case.
C33_SlotsAreCopies ==
    [][/\ ((\E s \in EditSteps : \E v \in BOOLEAN : SetStep("drums", "kick", s, v))
            \/ (\E s \in EditSteps : \E d \in SemitoneInputs : NoteDrag("bass", s, d))
            \/ ToggleInstrumentRemoved("drums", "kick"))
           => patterns'.store = patterns.store
       /\ \A i \in DOMAIN patterns.store :
              LET SavedAsOutgoing ==
                      /\ i = patterns.active
                      /\ (\E j \in PatternInputs : RequestPattern(j)) \/ TickAny
              IN  /\ SlotContent(patterns'.store[i]) # SlotContent(patterns.store[i])
                         => SavedAsOutgoing \/ steps' # steps
                  /\ patterns'.store[i].removed # patterns.store[i].removed
                         => SavedAsOutgoing]_vars

\* After a switch to slot 2 the live kick at step 1 was switched on, the bass
\* pitch dragged and the kick removed: slot 2 still holds what it held at the
\* switch, and slot 1 what was live when it was left.
C33_Witness ==
    /\ patterns.active = 2 /\ steps = 2
    /\ Flag(sequence.tracks.drums["kick"], 1)
    /\ ~Flag(patterns.store[2].tracks.drums["kick"], 1)
    /\ synthNotes["bass"][2] = 84 /\ patterns.store[2].synthNotes["bass"][2] = 69
    /\ sequence.removed.drums["kick"] /\ ~patterns.store[2].removed.drums["kick"]
    /\ Flag(patterns.store[1].tracks.drums["kick"], 1)

\* Every pitch of the pitch arrays `notes` (synth name -> array) is in [48, 84].
PitchesInRange(notes) ==
    \A n \in DOMAIN notes : \A k \in DOMAIN notes[n] : notes[n][k] \in 48..84

\* C34: after every step every pitch, in the live pitch arrays and in all four
\* slots, is an integer within [48, 84]; a pitch drag stores the dragged pitch
\* clamped to that range, and the entries a resize adds are 69.
C34_PitchesStayInRange ==
    [][/\ PitchesInRange(synthNotes')
       /\ \A i \in DOMAIN patterns'.store : PitchesInRange(patterns'.store[i].synthNotes)
       /\ \A s \in EditSteps : \A d \in WideSemitoneInputs :
              NoteDrag("bass", s, d) =>
                  LET dragged == synthNotes["bass"][s + 1] + d
                  IN  synthNotes'["bass"][s + 1] =
                          IF dragged < 48 THEN 48 ELSE IF dragged > 84 THEN 84 ELSE dragged
       /\ \A n \in DOMAIN synthNotes :
              \A k \in DOMAIN synthNotes'[n] : k > Len(synthNotes[n]) => synthNotes'[n][k] = 69]_vars

\* The live bass pitch at step 1 was dragged down past the lower end and is 48,
\* slot 1 holds the pitch dragged up past the upper end, 84.
C34_Witness ==
    /\ patterns.active = 2 /\ steps = 16
    /\ synthNotes["bass"] = Resized(<<69, 48>>, 16, 69)
    /\ patterns.store[1].synthNotes["bass"][2] = 84

\* C35: whenever the transport is stopped no pattern switch is pending: a
\* request queued while playing does not survive stop().
C35_StoppedHasNoPending == ~isPlaying => patterns.pending = Null

\* C36: in every reachable state a periodic tick timer is active exactly when
\* the transport is playing, and at most one timer is active.
C36_TimerIffPlaying ==
    /\ (timers # {}) <=> isPlaying
    /\ Cardinality(timers) <= 1

\* C37: a snapshot returned by getSequenceData() does not change afterwards:
\* no later setStep / toggleStep, volume, removed-flag or clearSequence edit
\* changes the flags, volumes or removed flags it holds.
C37_SnapshotIsIndependent ==
    [][(held.taken /\ ~TakeSnapshot) => held'.data = held.data]_vars

\* C38: in every step (setBars, time-signature change, pattern switch, edit)
\* the bar count of a slot changes only if the slot is the active one and the
\* step is a setBars call: the other three slots keep their bar counts.
C38_BarsOfActiveSlotOnly ==
    [][\A i \in DOMAIN patterns.store :
          patterns'.store[i].bars # patterns.store[i].bars
              => i = patterns.active /\ (\E n \in WideBarsInputs : SetBars(n))]_vars

\* Slot 2 was just given 16 bars under 1/16 while slot 1 keeps its 2 bars.
C38_Witness ==
    /\ patterns.active = 2 /\ steps = 16 /\ fired = <<>>
    /\ timeSignature = [num |-> 1, den |-> 16]
    /\ patterns.store[1].bars = 2 /\ patterns.store[2].bars = 16
    /\ patterns.store[3].bars = 1 /\ patterns.store[4].bars = 1

\* The create requests the backend has received or is about to receive.
CreateCalls ==
    Len(storage) + Cardinality({k \in DOMAIN inflight : inflight[k].method = "POST"})

\* C39: for a sequence without a persistence id, save actions that overlap
\* lead to at most one create call, and every update in flight carries the
\* id that a create has returned.
C39_AtMostOneCreate ==
    /\ CreateCalls <= 1
    /\ \A k \in DOMAIN inflight :
           inflight[k].method = "PUT" => inflight[k].id \in DOMAIN storage

\* Two saves overlapped and both were answered: the one sequence is stored twice.
C39_Witness ==
    /\ Len(storage) = 2
    /\ inflight = <<>>

====
